---- MODULE Spec2Model ----
\* Model of subspace-cli's src/main.rs: main's dispatch on the parsed
\* subcommand and the interactive menu of arrow_key_mode (raw terminal mode,
\* key-event loop, in-place redraw by print_options, dispatch after Enter).
EXTENDS Integers, Sequences, FiniteSets

\* ---------------------------------------------------------------- bounds
\* Most terminal events read by one session of the menu.
MaxEvents == 5
\* Largest cursor row cursor::position() may report at session start.
MaxRow == 1

\* ------------------------------------------------------------ data model
\* u16 arithmetic of the cursor rows (release build: wrapping).
U16 == 65536

\* args.command = None: no subcommand was given.
None == [variant |-> "None", flags |-> <<>>]

\* Commands::iter(): the variants of enum Commands in declaration order.
CommandsIter == <<"Init", "Farm", "Wipe", "Info", "OpenLogs">>

\* impl Display for Commands.
to_string(command) ==
    CASE command = "Farm" -> "farm"
      [] command = "Wipe" -> "wipe"
      [] command = "Info" -> "info"
      [] command = "Init" -> "init"
      [] command = "OpenLogs" -> "open logs directory"

\* let options = Commands::iter().map(|command| command.to_string()).collect()
options == [i \in 1..Len(CommandsIter) |-> to_string(CommandsIter[i])]

\* What Cli::parse() can yield in args.command: a variant with its flags.
CliCommands ==
    {[variant |-> "Init", flags |-> <<>>],
     [variant |-> "Info", flags |-> <<>>],
     [variant |-> "OpenLogs", flags |-> <<>>]}
    \cup {[variant |-> "Farm", flags |-> <<v, e, n>>] : v, e, n \in BOOLEAN}
    \cup {[variant |-> "Wipe", flags |-> <<f, n>>] : f, n \in BOOLEAN}

\* The external action main calls for a parsed command.
DirectCall(command) ==
    CASE command.variant = "Info" -> [name |-> "info", args |-> <<>>]
      [] command.variant = "Init" -> [name |-> "init", args |-> <<>>]
      [] command.variant = "Farm" -> [name |-> "farm", args |-> command.flags]
      [] command.variant = "Wipe" -> [name |-> "wipe_config", args |-> command.flags]
      [] command.variant = "OpenLogs" -> [name |-> "open_log_dir", args |-> <<>>]

\* Terminal events crossterm::event::read() can deliver.
Events ==
    {[kind |-> "Key", code |-> c, ctrl |-> m] :
        c \in {"Up", "Down", "Enter", "k", "j", "c", "x"}, m \in BOOLEAN}
    \cup {[kind |-> "Resize", code |-> "", ctrl |-> FALSE]}

\* No event has been read yet.
NoEvent == [kind |-> "None", code |-> "", ctrl |-> FALSE]

\* crossterm::event::read() returned Err.
ReadFailed == [kind |-> "Error", code |-> "", ctrl |-> FALSE]

\* Lines a user can type at a yes/no prompt.
Answers == {"y", "n", "maybe"}

\* yes_or_no_parser: strict yes/no parsing of one line.
yes_or_no_parser(line) ==
    CASE line = "y" -> [ok |-> TRUE, value |-> TRUE]
      [] line = "n" -> [ok |-> TRUE, value |-> FALSE]
      [] OTHER -> [ok |-> FALSE, value |-> FALSE]

\* get_user_input(prompt, None, parser): one line read, handed to the parser.
get_user_input(line) == yes_or_no_parser(line)

\* ------------------------------------------------------- print_options
\* print_options without the final execute!(stdout, cursor::RestorePosition).
PrintOpsNoRestore(sel, pos) ==
    <<[op |-> "MoveTo", row |-> (pos + 2) % U16, text |-> "", marked |-> FALSE],
      [op |-> "SavePosition", row |-> 0, text |-> "", marked |-> FALSE],
      [op |-> "writeln", row |-> 0, text |-> "header", marked |-> FALSE]>>
    \o [i \in 1..Len(options) |->
          [op |-> "option", row |-> ((i - 1) + pos + 4) % U16,
           text |-> options[i], marked |-> ((i - 1) = sel)]]
    \o <<[op |-> "writeln", row |-> 0, text |-> "", marked |-> FALSE],
         [op |-> "flush", row |-> 0, text |-> "", marked |-> FALSE]>>

\* The terminal operations of one complete print_options call, in order.
PrintOps(sel, pos) ==
    <<[op |-> "MoveTo", row |-> (pos + 2) % U16, text |-> "", marked |-> FALSE],
      [op |-> "SavePosition", row |-> 0, text |-> "", marked |-> FALSE],
      [op |-> "writeln", row |-> 0, text |-> "header", marked |-> FALSE]>>
    \o [i \in 1..Len(options) |->
          [op |-> "option", row |-> ((i - 1) + pos + 4) % U16,
           text |-> options[i], marked |-> ((i - 1) = sel)]]
    \o <<[op |-> "writeln", row |-> 0, text |-> "", marked |-> FALSE],
         [op |-> "flush", row |-> 0, text |-> "", marked |-> FALSE],
         [op |-> "RestorePosition", row |-> 0, text |-> "", marked |-> FALSE]>>

\* Number of fallible steps of print_options: the first execute! (MoveTo and
\* SavePosition together), the header, one writeln per option, the trailing
\* writeln, flush, the final execute!.
PrintSteps == Len(options) + 5

\* Operations done when the call fails in its (done+1)-th fallible step.
PrintPrefix(sel, pos, done) ==
    IF done = 0 THEN <<>> ELSE SubSeq(PrintOps(sel, pos), 1, done + 1)

\* ------------------------------------------------------------ navigation
\* Off-by-one guard: `selected >= 0`.
CanMoveUpAtZero(sel) == sel >= 0

\* KeyCode::Up | KeyCode::Char('k'): if selected > 0
CanMoveUp(sel) == sel > 0

\* Off-by-one bound: `selected < options.len()`.
CanMoveDownPastEnd(sel) == sel < Len(options)

\* KeyCode::Down | KeyCode::Char('j'): if selected < options.len() - 1
CanMoveDown(sel) == sel < Len(options) - 1

\* The match without the guard on KeyModifiers::CONTROL.
ArmNoModifierGuard(ev) ==
    IF ev.kind # "Key" THEN "none"
    ELSE CASE ev.code \in {"Up", "k"} -> "up"
           [] ev.code \in {"Down", "j"} -> "down"
           [] ev.code = "Enter" -> "enter"
           [] ev.code = "c" -> "interrupt"
           [] OTHER -> "ignore"

\* The first arm of `match event.code` that takes the event.
Arm(ev) ==
    IF ev.kind # "Key" THEN "none"
    ELSE CASE ev.code \in {"Up", "k"} -> "up"
           [] ev.code \in {"Down", "j"} -> "down"
           [] ev.code = "Enter" -> "enter"
           [] ev.code = "c" /\ ev.ctrl -> "interrupt"
           [] OTHER -> "ignore"

\* ----------------------------------------------------------------- state
VARIABLES
    pc,           \* where the process is
    command,      \* args.command after Cli::parse()
    selected,     \* arrow_key_mode: selected
    position,     \* arrow_key_mode: position (anchor row)
    rawMode,      \* the terminal is in raw mode
    enableCalls,  \* successful enable_raw_mode() calls
    disableCalls, \* successful disable_raw_mode() calls
    printCalls,   \* print_options invocations
    lastDraw,     \* terminal operations of the latest print_options call
    cursorBelow,  \* row the cursor was moved to after the loop, or -1
    nEvents,      \* events read so far
    lastEvent,    \* what the latest crossterm::event::read() returned
    ups,          \* Up/k events processed
    downs,        \* Down/j events processed
    changes,      \* events that changed selected
    flags,        \* the locals verbose, executor, no_rotation
    asked,        \* prompts shown, in order
    answers,      \* lines typed at the prompts, in order
    invoked,      \* external actions called, in order
    order,        \* steps taken once the loop was left by Enter
    rawAtIO,      \* a prompt was read or an action called in raw mode
    exitPath,     \* how the loop was left: "none", "enter", "interrupt"
    ioAt,         \* the call of arrow_key_mode whose io::Error `?` returned, or "none"
    akmResult,    \* what arrow_key_mode returned: "none", "ok", "err"
    errKind,      \* the error on its way out, or "none"
    exit          \* process exit code, or -1 while running

vars == <<pc, command, selected, position, rawMode, enableCalls, disableCalls,
          printCalls, lastDraw, cursorBelow, nEvents, lastEvent, ups, downs,
          changes, flags, asked, answers, invoked, order, rawAtIO, exitPath, ioAt,
          akmResult, errKind, exit>>

menuVars == <<selected, position, rawMode, enableCalls, disableCalls,
              printCalls, lastDraw, cursorBelow, nEvents, lastEvent, ups,
              downs, changes, flags, asked, answers, order, rawAtIO, exitPath, ioAt,
              akmResult>>

Init ==
    /\ pc = "main"
    /\ command = None
    /\ selected = 0
    /\ position = 0
    /\ rawMode = FALSE
    /\ enableCalls = 0
    /\ disableCalls = 0
    /\ printCalls = 0
    /\ lastDraw = <<>>
    /\ cursorBelow = -1
    /\ nEvents = 0
    /\ lastEvent = NoEvent
    /\ ups = 0
    /\ downs = 0
    /\ changes = 0
    /\ flags = [verbose |-> FALSE, executor |-> FALSE, no_rotation |-> FALSE]
    /\ asked = <<>>
    /\ answers = <<>>
    /\ invoked = <<>>
    /\ order = <<>>
    /\ rawAtIO = FALSE
    /\ exitPath = "none"
    /\ ioAt = "none"
    /\ akmResult = "none"
    /\ errKind = "none"
    /\ exit = -1

\* ------------------------------------------------------------------ main
\* Cli::parse() rejects the argument list: clap reports it and exits.
ParseUsageError ==
    /\ pc = "main"
    /\ pc' = "done"
    /\ errKind' = "usage"
    /\ exit' = 2
    /\ UNCHANGED <<command, invoked>>
    /\ UNCHANGED menuVars

\* Some(command) falling into the `None =>` arm.
ParseSomeEntersMenu ==
    /\ pc = "main"
    /\ \E c \in CliCommands : command' = c
    /\ pc' = "position"
    /\ UNCHANGED <<invoked, errKind, exit>>
    /\ UNCHANGED menuVars

\* Cli::parse() yields Some(command).
ParseSome ==
    /\ pc = "main"
    /\ \E c \in CliCommands : command' = c
    /\ pc' = "direct"
    /\ UNCHANGED <<invoked, errKind, exit>>
    /\ UNCHANGED menuVars

\* Cli::parse() yields None: main calls arrow_key_mode().
ParseNone ==
    /\ pc = "main"
    /\ command' = None
    /\ pc' = "position"
    /\ UNCHANGED <<invoked, errKind, exit>>
    /\ UNCHANGED menuVars

\* The Some(..) arms of main: the action is called, `?` forwards its failure.
DirectDispatch ==
    /\ pc = "direct"
    /\ invoked' = Append(invoked, DirectCall(command))
    /\ \E ok \in BOOLEAN :
          /\ errKind' = IF ok THEN errKind ELSE "action"
          /\ exit' = IF ok THEN 0 ELSE 1
    /\ pc' = "done"
    /\ UNCHANGED command
    /\ UNCHANGED menuVars

\* `let _ = arrow_key_mode().await; Ok(())`: the result is dropped.
MainReturnSwallows ==
    /\ pc = "returned"
    /\ exit' = 0
    /\ pc' = "done"
    /\ UNCHANGED <<command, invoked, errKind>>
    /\ UNCHANGED menuVars

\* arrow_key_mode().await.suggestion(support_message())?; Ok(())
MainReturn ==
    /\ pc = "returned"
    /\ exit' = IF akmResult = "ok" THEN 0 ELSE 1
    /\ pc' = "done"
    /\ UNCHANGED <<command, invoked, errKind>>
    /\ UNCHANGED menuVars

\* -------------------------------------------------------- arrow_key_mode
\* A `?` inside arrow_key_mode that met an io::Error: the function returns.
ReturnIoError(call) ==
    /\ pc' = "returned"
    /\ ioAt' = call
    /\ akmResult' = "err"
    /\ errKind' = "io"

\* let position = cursor::position()?.1;
CursorPosition ==
    /\ pc = "position"
    /\ \/ /\ \E row \in 0..MaxRow : position' = row
          /\ pc' = "enable"
          /\ UNCHANGED <<ioAt, akmResult, errKind>>
       \/ /\ ReturnIoError("position")
          /\ UNCHANGED position
    /\ UNCHANGED <<command, selected, rawMode, enableCalls, disableCalls,
                   printCalls, lastDraw, cursorBelow, nEvents, ups, downs,
                   changes, flags, asked, answers, invoked, order, rawAtIO,
                   exit>>
    /\ UNCHANGED exitPath
    /\ UNCHANGED lastEvent

\* enable_raw_mode()?;
EnableRawMode ==
    /\ pc = "enable"
    /\ \/ /\ rawMode' = TRUE
          /\ enableCalls' = enableCalls + 1
          /\ pc' = "draw"
          /\ UNCHANGED <<ioAt, akmResult, errKind>>
       \/ /\ ReturnIoError("enable")
          /\ UNCHANGED <<rawMode, enableCalls>>
    /\ UNCHANGED <<command, selected, position, disableCalls, printCalls,
                   lastDraw, cursorBelow, nEvents, ups, downs, changes, flags,
                   asked, answers, invoked, order, rawAtIO, exit>>
    /\ UNCHANGED exitPath
    /\ UNCHANGED lastEvent

\* print_options(&mut stdout, &options, sel, position)?; then the loop goes on.
Draw(sel, call) ==
    /\ printCalls' = printCalls + 1
    /\ \/ /\ lastDraw' = PrintOps(sel, position)
          /\ pc' = "read"
          /\ UNCHANGED <<ioAt, akmResult, errKind>>
       \/ /\ \E done \in 0..(PrintSteps - 1) :
                lastDraw' = PrintPrefix(sel, position, done)
          /\ ReturnIoError(call)

\* The first print_options call, before the loop.
InitialDraw ==
    /\ pc = "draw"
    /\ Draw(selected, "draw")
    /\ UNCHANGED <<command, selected, position, rawMode, enableCalls,
                   disableCalls, cursorBelow, nEvents, ups, downs, changes,
                   flags, asked, answers, invoked, order, rawAtIO, exit>>
    /\ UNCHANGED exitPath
    /\ UNCHANGED lastEvent

\* crossterm::event::read() delivers ev to the loop. Events that keep the
\* loop running are bounded by MaxEvents; one that leaves it can always come.
Reads(ev, arm) ==
    /\ pc = "read"
    /\ nEvents < MaxEvents \/ arm \in {"enter", "interrupt"}
    /\ Arm(ev) = arm
    /\ nEvents' = nEvents + 1
    /\ lastEvent' = ev

\* crossterm::event::read()? fails.
ReadError ==
    /\ pc = "read"
    /\ nEvents' = nEvents + 1
    /\ lastEvent' = ReadFailed
    /\ ReturnIoError("read")
    /\ UNCHANGED <<command, selected, position, rawMode, enableCalls,
                   disableCalls, printCalls, lastDraw, cursorBelow, ups, downs,
                   changes, flags, asked, answers, invoked, order, rawAtIO,
                   exit>>
    /\ UNCHANGED exitPath

\* The Up arm with print_options called outside the `if`.
KeyUpRedrawsAlways ==
    /\ \E ev \in Events : Reads(ev, "up")
    /\ ups' = ups + 1
    /\ IF CanMoveUp(selected)
       THEN /\ selected' = selected - 1
            /\ changes' = changes + 1
       ELSE UNCHANGED <<selected, changes>>
    /\ Draw(selected', "redraw")
    /\ UNCHANGED <<command, position, rawMode, enableCalls, disableCalls,
                   cursorBelow, downs, flags, asked, answers, invoked, order,
                   rawAtIO, exit>>
    /\ UNCHANGED exitPath

\* KeyCode::Up | KeyCode::Char('k')
KeyUp ==
    /\ \E ev \in Events : Reads(ev, "up")
    /\ ups' = ups + 1
    /\ IF CanMoveUp(selected)
       THEN /\ selected' = selected - 1
            /\ changes' = changes + 1
            /\ Draw(selected', "redraw")
       ELSE UNCHANGED <<selected, changes, printCalls, lastDraw, pc, ioAt,
                        akmResult, errKind>>
    /\ UNCHANGED <<command, position, rawMode, enableCalls, disableCalls,
                   cursorBelow, downs, flags, asked, answers, invoked, order,
                   rawAtIO, exit>>
    /\ UNCHANGED exitPath

\* The Down arm with print_options called before `selected += 1`.
KeyDownDrawsStale ==
    /\ \E ev \in Events : Reads(ev, "down")
    /\ downs' = downs + 1
    /\ IF CanMoveDown(selected)
       THEN /\ selected' = selected + 1
            /\ changes' = changes + 1
            /\ Draw(selected, "redraw")
       ELSE UNCHANGED <<selected, changes, printCalls, lastDraw, pc, ioAt,
                        akmResult, errKind>>
    /\ UNCHANGED <<command, position, rawMode, enableCalls, disableCalls,
                   cursorBelow, ups, flags, asked, answers, invoked, order,
                   rawAtIO, exit>>
    /\ UNCHANGED exitPath

\* The Down arm with a `break` when the selection cannot move.
KeyDownBreaks ==
    /\ \E ev \in Events : Reads(ev, "down")
    /\ downs' = downs + 1
    /\ IF CanMoveDown(selected)
       THEN /\ selected' = selected + 1
            /\ changes' = changes + 1
            /\ Draw(selected', "redraw")
       ELSE /\ pc' = "disable"
            /\ UNCHANGED <<selected, changes, printCalls, lastDraw, ioAt,
                           akmResult, errKind>>
    /\ UNCHANGED <<command, position, rawMode, enableCalls, disableCalls,
                   cursorBelow, ups, flags, asked, answers, invoked, order,
                   rawAtIO, exit>>
    /\ UNCHANGED exitPath

\* KeyCode::Down | KeyCode::Char('j')
KeyDown ==
    /\ \E ev \in Events : Reads(ev, "down")
    /\ downs' = downs + 1
    /\ IF CanMoveDown(selected)
       THEN /\ selected' = selected + 1
            /\ changes' = changes + 1
            /\ Draw(selected', "redraw")
       ELSE UNCHANGED <<selected, changes, printCalls, lastDraw, pc, ioAt,
                        akmResult, errKind>>
    /\ UNCHANGED <<command, position, rawMode, enableCalls, disableCalls,
                   cursorBelow, ups, flags, asked, answers, invoked, order,
                   rawAtIO, exit>>
    /\ UNCHANGED exitPath

\* KeyCode::Enter => break
KeyEnter ==
    /\ \E ev \in Events : Reads(ev, "enter")
    /\ pc' = "disable"
    /\ exitPath' = "enter"
    /\ order' = <<"exit_loop">>
    /\ UNCHANGED <<command, selected, position, rawMode, enableCalls,
                   disableCalls, printCalls, lastDraw, cursorBelow, ups, downs,
                   changes, flags, asked, answers, invoked, rawAtIO, akmResult,
                   errKind, exit>>
    /\ UNCHANGED ioAt

\* KeyCode::Char('c') if event.modifiers.contains(CONTROL) => return Ok(())
KeyInterrupt ==
    /\ \E ev \in Events : Reads(ev, "interrupt")
    /\ pc' = "returned"
    /\ exitPath' = "interrupt"
    /\ akmResult' = "ok"
    /\ UNCHANGED <<command, selected, position, rawMode, enableCalls,
                   disableCalls, printCalls, lastDraw, cursorBelow, ups, downs,
                   changes, flags, asked, answers, invoked, order, rawAtIO,
                   errKind, exit>>
    /\ UNCHANGED ioAt

\* The `_` arm calling print_options.
IgnoredEventRedraws ==
    /\ \E ev \in Events : Reads(ev, "ignore") \/ Reads(ev, "none")
    /\ Draw(selected, "redraw")
    /\ UNCHANGED <<command, selected, position, rawMode, enableCalls,
                   disableCalls, cursorBelow, ups, downs, changes, flags,
                   asked, answers, invoked, order, rawAtIO, exit>>
    /\ UNCHANGED exitPath

\* `_ => {}` and events that are not Event::Key: the loop reads again.
IgnoredEvent ==
    /\ \E ev \in Events : Reads(ev, "ignore") \/ Reads(ev, "none")
    /\ UNCHANGED <<pc, command, selected, position, rawMode, enableCalls,
                   disableCalls, printCalls, lastDraw, cursorBelow, ups, downs,
                   changes, flags, asked, answers, invoked, order, rawAtIO,
                   akmResult, errKind, exit>>
    /\ UNCHANGED <<exitPath, ioAt>>

\* The loop's exit without the disable_raw_mode() call.
DisableRawModeSkipped ==
    /\ pc = "disable"
    /\ pc' = "moveto"
    /\ UNCHANGED <<command, selected, position, rawMode, enableCalls,
                   disableCalls, printCalls, lastDraw, cursorBelow, nEvents,
                   ups, downs, changes, flags, asked, answers, invoked, order,
                   rawAtIO, exitPath, ioAt, akmResult, errKind, exit>>
    /\ UNCHANGED lastEvent

\* disable_raw_mode()?; after the loop
DisableRawMode ==
    /\ pc = "disable"
    /\ \/ /\ rawMode' = FALSE
          /\ disableCalls' = disableCalls + 1
          /\ order' = Append(order, "raw_off")
          /\ pc' = "moveto"
          /\ UNCHANGED <<ioAt, akmResult, errKind>>
       \/ /\ ReturnIoError("disable")
          /\ UNCHANGED <<rawMode, disableCalls, order>>
    /\ UNCHANGED <<command, selected, position, enableCalls, printCalls,
                   lastDraw, cursorBelow, nEvents, ups, downs, changes, flags,
                   asked, answers, invoked, rawAtIO, exit>>
    /\ UNCHANGED exitPath
    /\ UNCHANGED lastEvent

\* execute!(stdout, cursor::MoveTo(0, position + options.len() as u16 + 6))?;
MoveCursorBelow ==
    /\ pc = "moveto"
    /\ \/ /\ cursorBelow' = (position + Len(options) + 6) % U16
          /\ order' = Append(order, "cursor_below")
          /\ pc' = "match"
          /\ UNCHANGED <<ioAt, akmResult, errKind>>
       \/ /\ ReturnIoError("moveto")
          /\ UNCHANGED <<cursorBelow, order>>
    /\ UNCHANGED <<command, selected, position, rawMode, enableCalls,
                   disableCalls, printCalls, lastDraw, nEvents, ups, downs,
                   changes, flags, asked, answers, invoked, rawAtIO, exit>>
    /\ UNCHANGED exitPath
    /\ UNCHANGED lastEvent

\* The arms 2 and 3 with their bodies exchanged.
MenuCallExchanged(sel) ==
    CASE sel = 0 -> [name |-> "init", args |-> <<>>]
      [] sel = 2 -> [name |-> "info", args |-> <<>>]
      [] sel = 3 -> [name |-> "wipe_config", args |-> <<FALSE, FALSE>>]
      [] sel = 4 -> [name |-> "open_log_dir", args |-> <<>>]

\* The arms of `match selected` that call their action at once.
MenuCall(sel) ==
    CASE sel = 0 -> [name |-> "init", args |-> <<>>]
      [] sel = 2 -> [name |-> "wipe_config", args |-> <<FALSE, FALSE>>]
      [] sel = 3 -> [name |-> "info", args |-> <<>>]
      [] sel = 4 -> [name |-> "open_log_dir", args |-> <<>>]

\* farm(executor, verbose, no_rotation): two arguments exchanged.
FarmCallExchanged(f) == [name |-> "farm", args |-> <<f.executor, f.verbose, f.no_rotation>>]

\* farm(verbose, executor, no_rotation)
FarmCall(f) == [name |-> "farm", args |-> <<f.verbose, f.executor, f.no_rotation>>]

\* The action called from inside the loop: after its success the loop reads on.
InvokeAndLoop(call) ==
    /\ invoked' = Append(invoked, call)
    /\ order' = Append(order, "action")
    /\ rawAtIO' = (rawAtIO \/ rawMode)
    /\ \E ok \in BOOLEAN :
          /\ akmResult' = IF ok THEN "none" ELSE "err"
          /\ errKind' = IF ok THEN errKind ELSE "action"
          /\ pc' = IF ok THEN "read" ELSE "returned"

\* action(..).await.suggestion(support_message())?; Ok(())
Invoke(call) ==
    /\ invoked' = Append(invoked, call)
    /\ order' = Append(order, "action")
    /\ rawAtIO' = (rawAtIO \/ rawMode)
    /\ \E ok \in BOOLEAN :
          /\ akmResult' = IF ok THEN "ok" ELSE "err"
          /\ errKind' = IF ok THEN errKind ELSE "action"
    /\ pc' = "returned"

\* match selected { 0 => .., 1 => .., 2 => .., 3 => .., 4 => .., _ => unreachable!() }
Dispatch ==
    /\ pc = "match"
    /\ CASE selected \in {0, 2, 3, 4} -> Invoke(MenuCall(selected))
         [] selected = 1 ->
               /\ pc' = "prompt_verbose"
               /\ UNCHANGED <<invoked, order, rawAtIO, akmResult, errKind>>
         [] OTHER ->
               /\ pc' = "panic"
               /\ UNCHANGED <<invoked, order, rawAtIO, akmResult, errKind>>
    /\ UNCHANGED <<command, selected, position, rawMode, enableCalls,
                   disableCalls, printCalls, lastDraw, cursorBelow, nEvents,
                   ups, downs, changes, flags, asked, answers, exit>>
    /\ UNCHANGED <<exitPath, ioAt>>
    /\ UNCHANGED lastEvent

\* The prompt with unwrap_or(false) in place of `?`.
PromptLenient(at, field, next) ==
    /\ pc = at
    /\ \E line \in Answers :
          /\ asked' = Append(asked, field)
          /\ answers' = Append(answers, line)
          /\ order' = Append(order, "prompt")
          /\ rawAtIO' = (rawAtIO \/ rawMode)
          /\ flags' = [flags EXCEPT ![field] = get_user_input(line).value]
          /\ pc' = next
          /\ UNCHANGED <<akmResult, errKind>>
    /\ UNCHANGED <<command, selected, position, rawMode, enableCalls,
                   disableCalls, printCalls, lastDraw, cursorBelow, nEvents,
                   ups, downs, changes, invoked, exit>>
    /\ UNCHANGED <<exitPath, ioAt>>
    /\ UNCHANGED lastEvent

\* let <field> = get_user_input(prompt, None, yes_or_no_parser).context("prompt failed")?;
Prompt(at, field, next) ==
    /\ pc = at
    /\ \E line \in Answers :
          /\ asked' = Append(asked, field)
          /\ answers' = Append(answers, line)
          /\ order' = Append(order, "prompt")
          /\ rawAtIO' = (rawAtIO \/ rawMode)
          /\ IF get_user_input(line).ok
             THEN /\ flags' = [flags EXCEPT ![field] = get_user_input(line).value]
                  /\ pc' = next
                  /\ UNCHANGED <<akmResult, errKind>>
             ELSE /\ pc' = "returned"
                  /\ akmResult' = "err"
                  /\ errKind' = "prompt"
                  /\ UNCHANGED flags
    /\ UNCHANGED <<command, selected, position, rawMode, enableCalls,
                   disableCalls, printCalls, lastDraw, cursorBelow, nEvents,
                   ups, downs, changes, invoked, exit>>
    /\ UNCHANGED <<exitPath, ioAt>>
    /\ UNCHANGED lastEvent

\* The first answer bound to executor.
PromptVerboseBindsExecutor == Prompt("prompt_verbose", "executor", "prompt_executor")

PromptVerbose == Prompt("prompt_verbose", "verbose", "prompt_executor")

PromptExecutor == Prompt("prompt_executor", "executor", "prompt_no_rotation")

PromptNoRotation == Prompt("prompt_no_rotation", "no_rotation", "farm")

\* farm(verbose, executor, no_rotation).await.suggestion(support_message())?;
InvokeFarm ==
    /\ pc = "farm"
    /\ Invoke(FarmCall(flags))
    /\ UNCHANGED <<command, selected, position, rawMode, enableCalls,
                   disableCalls, printCalls, lastDraw, cursorBelow, nEvents,
                   ups, downs, changes, flags, asked, answers, exit>>
    /\ UNCHANGED <<exitPath, ioAt>>
    /\ UNCHANGED lastEvent

Next ==
    \/ ParseUsageError
    \/ ParseSome
    \/ ParseNone
    \/ DirectDispatch
    \/ MainReturn
    \/ CursorPosition
    \/ EnableRawMode
    \/ InitialDraw
    \/ ReadError
    \/ KeyUp
    \/ KeyDown
    \/ KeyEnter
    \/ KeyInterrupt
    \/ IgnoredEvent
    \/ DisableRawMode
    \/ MoveCursorBelow
    \/ Dispatch
    \/ PromptVerbose
    \/ PromptExecutor
    \/ PromptNoRotation
    \/ InvokeFarm

Spec == Init /\ [][Next]_vars

\* An event that leaves the loop: Enter, the interrupt chord, a failed read.
LeavesLoop == KeyEnter \/ KeyInterrupt \/ ReadError

\* The steps arrow_key_mode and main take by themselves, blocking at most on
\* a line typed at a prompt.
Proceeds ==
    \/ CursorPosition
    \/ EnableRawMode
    \/ InitialDraw
    \/ DisableRawMode
    \/ MoveCursorBelow
    \/ Dispatch
    \/ PromptVerbose
    \/ PromptExecutor
    \/ PromptNoRotation
    \/ InvokeFarm
    \/ MainReturn

\* The single task runs on whenever it is not waiting for input, the terminal
\* delivers what is typed, and an event that leaves the loop eventually comes.
FairSpec == Spec /\ WF_vars(Proceeds) /\ WF_vars(LeavesLoop)

\* ---------------------------------------------------------------- claims
LastIndex == Len(options) - 1

Min(a, b) == IF a < b THEN a ELSE b

\* arrow_key_mode has returned to main (or the process has ended after it).
Returned == pc \in {"returned", "done"} /\ akmResult # "none"

\* C1: with 5 options the selection index stays in [0, 4] after every event;
\* Up at 0 and Down at 4 leave it unchanged, and with only Downs read the index
\* is the number of Downs clamped at 4 (five Downs from 0 end at 4, not 0).
C1_SelectionClamped ==
    /\ [](/\ Len(options) = 5
          /\ selected \in 0..4
          /\ (ups = 0 => selected = Min(downs, 4)))
    /\ [][/\ (ups' # ups /\ selected = 0) => selected' = 0
          /\ (downs' # downs /\ selected = 4) => selected' = 4]_vars

\* Five Downs read from index 0, and nothing else.
C1_Witness == nEvents = 5 /\ downs = 5 /\ ups = 0 /\ selected = 4

\* C2: after the interrupt chord the session returns success with no action
\* invoked, raw mode is disabled when arrow_key_mode returns, and the process
\* exits 0.
C2_InterruptReleasesRawMode ==
    exitPath = "interrupt" =>
        /\ akmResult = "ok"
        /\ invoked = <<>>
        /\ ~rawMode
        /\ (pc = "done" => exit = 0)

\* C3: an I/O error in the initial draw, in a redraw or in event::read is
\* fatal to the session, and raw mode is disabled before the error leaves
\* arrow_key_mode.
C3_IoErrorReleasesRawMode ==
    ioAt \in {"draw", "redraw", "read"} =>
        /\ akmResult = "err"
        /\ ~rawMode
        /\ (pc = "done" => exit # 0)

\* C4: after Enter the loop exits, then raw mode is disabled, then the cursor
\* is moved below the block, and only then prompts are read and the action is
\* called; no prompt or action happens while raw mode is enabled.
C4_EnterOrder ==
    /\ ~rawAtIO
    /\ \A i \in DOMAIN order :
          /\ i <= 3 => order[i] = <<"exit_loop", "raw_off", "cursor_below">>[i]
          /\ i > 3 => order[i] \in {"prompt", "action"}
    /\ (command = None /\ (asked # <<>> \/ invoked # <<>>)) =>
          /\ exitPath = "enter"
          /\ ~rawMode
          /\ disableCalls = 1
          /\ cursorBelow = position + Len(options) + 6

\* Enter at farm: the three steps, three prompts, then the action.
C4_Witness ==
    order = <<"exit_loop", "raw_off", "cursor_below", "prompt", "prompt",
              "prompt", "action">>

\* C5: a session that enabled raw mode has, when it is over, enabled it
\* exactly once and disabled it exactly once, however it ended.
C5_RawModeOnceEach ==
    (Returned /\ enableCalls > 0) => (enableCalls = 1 /\ disableCalls = 1)

\* The first print_options call of the session has been made.
InitialDrawn == enableCalls > 0 /\ pc # "draw"

\* C6 as stated: the number of print_options invocations equals the number of
\* events that changed the selection index.
C6_PrintCallsEqualChanges == printCalls = changes

\* C6 amended: the print_options invocations after the initial draw are as
\* many as the events that changed the selection index; an Up at index 0 or a
\* Down at the last index calls print_options not at all.
C6_RedrawsEqualChanges ==
    /\ [](printCalls = changes + (IF InitialDrawn THEN 1 ELSE 0))
    /\ [][((ups' # ups /\ selected = 0) \/ (downs' # downs /\ selected = LastIndex))
             => (printCalls' = printCalls /\ lastDraw' = lastDraw)]_vars

\* Navigation with index-changing events and events at a boundary.
C6_Witness ==
    /\ pc = "read"
    /\ changes >= 2
    /\ ups + downs > changes
    /\ printCalls = changes + 1

\* The external action main's direct dispatch calls for a variant.
ActionOf(variant) == DirectCall([variant |-> variant, flags |-> <<>>]).name

\* C7: on Enter with index i the action called is that of the i-th variant of
\* Commands in enumeration and display order; only farm asks questions, and
\* wipe is called with (false, false) and no prompt.
C7_DispatchByIndex ==
    /\ asked # <<>> => (exitPath = "enter" /\ selected = 1)
    /\ (command = None /\ invoked # <<>>) =>
          /\ selected \in 0..LastIndex
          /\ invoked[1].name = ActionOf(CommandsIter[selected + 1])
          /\ \A k \in DOMAIN lastDraw :
                lastDraw[k].marked =>
                    lastDraw[k].text = to_string(CommandsIter[selected + 1])
          /\ selected # 1 => asked = <<>>
          /\ selected = 2 =>
                invoked[1] = [name |-> "wipe_config", args |-> <<FALSE, FALSE>>]

\* [down, down, enter]: wipe(false, false), no prompt.
C7_Witness ==
    /\ nEvents = 3
    /\ downs = 2
    /\ ups = 0
    /\ asked = <<>>
    /\ invoked = <<[name |-> "wipe_config", args |-> <<FALSE, FALSE>>]>>

\* The boolean a valid yes/no answer stands for.
Yes(line) == line = "y"

ValidAnswer(line) == line \in {"y", "n"}

\* C8: when farm is selected the three answers are bound in prompt order to
\* verbose, executor, no_rotation and passed unchanged to farm.
C8_FarmFlagsInOrder ==
    (command = None /\ invoked # <<>> /\ selected = 1) =>
        /\ asked = <<"verbose", "executor", "no_rotation">>
        /\ Len(answers) = 3
        /\ \A i \in 1..3 : ValidAnswer(answers[i])
        /\ invoked[1] = [name |-> "farm",
                         args |-> <<Yes(answers[1]), Yes(answers[2]), Yes(answers[3])>>]

\* y, n, y gives farm(true, false, true).
C8_Witness ==
    /\ answers = <<"y", "n", "y">>
    /\ invoked = <<[name |-> "farm", args |-> <<TRUE, FALSE, TRUE>>]>>

\* C9: an answer that is neither yes nor no fails command resolution with a
\* prompt error, no action is called, and the process exits non-zero.
C9_MalformedAnswerFails ==
    (\E i \in DOMAIN answers : ~ValidAnswer(answers[i])) =>
        /\ pc \in {"returned", "done"}
        /\ akmResult = "err"
        /\ errKind = "prompt"
        /\ invoked = <<>>
        /\ (pc = "done" => exit \notin {-1, 0})

\* "maybe" at the second prompt, process ended.
C9_Witness ==
    /\ pc = "done"
    /\ answers = <<"y", "maybe">>
    /\ exit = 1

\* The prompts the selected command requires have all been answered validly.
PromptsValid ==
    selected = 1 => (Len(answers) = 3 /\ \A i \in 1..3 : ValidAnswer(answers[i]))

ActionFailed == pc = "done" /\ invoked # <<>> /\ errKind = "action"

\* C11: a failure of the invoked action is never suppressed: the process
\* ends with a non-zero exit code; it exits 0 only if the action succeeded or
\* the session was cancelled.
C11_ActionFailureSurfaces ==
    /\ ActionFailed => exit \notin {-1, 0}
    /\ (pc = "returned" /\ errKind = "action") => akmResult = "err"
    /\ (pc = "done" /\ exit = 0) =>
          \/ (Len(invoked) = 1 /\ errKind = "none")
          \/ (exitPath = "interrupt" /\ invoked = <<>> /\ errKind = "none")

\* The action called from the menu failed and the process ended.
C11_Witness ==
    /\ ActionFailed
    /\ command = None
    /\ invoked[1].name = "farm"
    /\ exit = 1

\* arrow_key_mode has been called.
MenuEntered ==
    pc \notin {"main", "direct", "done"} \/ (pc = "done" /\ akmResult # "none")

\* The action and arguments a parsed command stands for.
MatchingCall(c) ==
    [name |-> CASE c.variant = "Init" -> "init"
                [] c.variant = "Farm" -> "farm"
                [] c.variant = "Wipe" -> "wipe_config"
                [] c.variant = "Info" -> "info"
                [] c.variant = "OpenLogs" -> "open_log_dir",
     args |-> c.flags]

\* C12: with a subcommand main calls the matching action with exactly the
\* parsed flags and never enters the menu (raw mode never enabled, no event
\* read); the menu is entered if and only if no subcommand was given.
C12_DirectDispatchSkipsMenu ==
    /\ command # None =>
          /\ ~MenuEntered
          /\ enableCalls = 0
          /\ ~rawMode
          /\ nEvents = 0
          /\ printCalls = 0
          /\ asked = <<>>
          /\ pc = "done" => invoked = <<MatchingCall(command)>>
    /\ (pc # "main" /\ errKind # "usage") => (MenuEntered <=> command = None)

\* `wipe --farmer` given on the command line, process ended.
C12_Witness ==
    /\ pc = "done"
    /\ command = [variant |-> "Wipe", flags |-> <<TRUE, FALSE>>]
    /\ invoked = <<[name |-> "wipe_config", args |-> <<TRUE, FALSE>>]>>

\* ev is Up/k, Down/j, Enter or the interrupt chord.
Handled(ev) ==
    /\ ev.kind = "Key"
    /\ \/ ev.code \in {"Up", "k", "Down", "j", "Enter"}
       \/ (ev.code = "c" /\ ev.ctrl)

\* This step reads an event none of the four arms handles.
ReadsUnhandled ==
    /\ nEvents' = nEvents + 1
    /\ lastEvent' \in Events
    /\ ~Handled(lastEvent')

\* C13: in Rendering any event other than Up/k, Down/j, Enter and the
\* interrupt chord is ignored: the session stays in Rendering, selection and
\* anchor row are unchanged, raw mode stays enabled, nothing is redrawn and no
\* action is invoked.
C13_OtherEventsIgnored ==
    [][ReadsUnhandled =>
          /\ pc = "read" /\ pc' = "read"
          /\ rawMode /\ rawMode'
          /\ UNCHANGED <<selected, position, printCalls, lastDraw, invoked,
                         exitPath, ioAt, akmResult, errKind, exit, changes,
                         enableCalls, disableCalls, asked, order>>]_vars

\* A plain character and a resize were read at index 2; the menu still waits.
C13_Witness ==
    /\ pc = "read"
    /\ lastEvent \in Events
    /\ ~Handled(lastEvent)
    /\ selected = 2
    /\ nEvents = 4
    /\ changes = 2
    /\ printCalls = 3

\* The operations of draw that write text.
Writes(draw) == {k \in DOMAIN draw : draw[k].op \in {"writeln", "option"}}

\* draw starts at the anchor row plus 2 and writes only after that move; a
\* RestorePosition in it comes last, after the whole option block.
AnchoredDraw(draw, anchor) ==
    /\ draw # <<>> =>
          /\ draw[1].op = "MoveTo"
          /\ draw[1].row = anchor + 2
          /\ \A k \in Writes(draw) : k > 1
    /\ \A k \in DOMAIN draw :
          draw[k].op = "RestorePosition" =>
              /\ k = Len(draw)
              /\ draw[2].op = "SavePosition"
              /\ Cardinality({j \in Writes(draw) : draw[j].op = "option"}) = Len(options)
              /\ \A j \in Writes(draw) : j < k

\* C14: every print_options call, the initial one included, first moves the
\* cursor to the anchor row plus a fixed offset, then writes the option block
\* and last restores the saved cursor position; the anchor row is captured
\* once and is the same in every redraw.
C14_RedrawAnchored ==
    /\ [](/\ AnchoredDraw(lastDraw, position)
          /\ pc = "read" =>
                (lastDraw # <<>> /\ lastDraw[Len(lastDraw)].op = "RestorePosition"))
    /\ [][/\ pc # "position" => position' = position
          /\ printCalls' # printCalls => AnchoredDraw(lastDraw', position)]_vars

\* Anchor row 1, the initial draw and two redraws, the last one complete.
C14_Witness ==
    /\ pc = "read"
    /\ position = 1
    /\ printCalls = 3
    /\ lastDraw[1].row = 3
    /\ lastDraw[Len(lastDraw)].op = "RestorePosition"

\* The option lines of the latest draw, in the order written.
DrawnOptions == SelectSeq(lastDraw, LAMBDA o : o.op = "option")

\* C15: whenever the menu waits for input the frame last drawn shows all 5
\* options, option i at row anchor + 4 + i, and exactly one of them carries
\* the selected marker: the one at the current selection index.
C15_FrameShowsSelection ==
    pc = "read" =>
        /\ Len(DrawnOptions) = 5
        /\ \A i \in 0..4 :
              /\ DrawnOptions[i + 1].row = position + 4 + i
              /\ DrawnOptions[i + 1].text = options[i + 1]
              /\ DrawnOptions[i + 1].marked <=> (i = selected)
        /\ Cardinality({i \in 1..5 : DrawnOptions[i].marked}) = 1

\* Waiting at index 3 after moving down past it and back up.
C15_Witness ==
    /\ pc = "read"
    /\ selected = 3
    /\ ups = 1
    /\ downs = 4
    /\ DrawnOptions[4].marked
    /\ DrawnOptions[4].text = "info"

PromptOrder == <<"verbose", "executor", "no_rotation">>

\* C16: farm's prompts are asked in the order verbose, executor, log
\* rotation; farm is called only after all three were answered, and a prompt
\* that fails ends the sequence: no later prompt is asked.
C16_PromptsSequential ==
    /\ [](/\ Len(asked) <= 3
          /\ Len(answers) = Len(asked)
          /\ \A i \in DOMAIN asked : asked[i] = PromptOrder[i]
          /\ \A i \in DOMAIN answers : i < Len(answers) => ValidAnswer(answers[i])
          /\ (command = None /\ \E k \in DOMAIN invoked : invoked[k].name = "farm")
                => (Len(asked) = 3 /\ errKind # "prompt")
          /\ errKind = "prompt" => (invoked = <<>> /\ pc \in {"returned", "done"}))
    /\ [][errKind = "prompt" => (asked' = asked /\ invoked' = invoked)]_vars

\* The second prompt failed: two prompts asked, process ended, no farm.
C16_Witness ==
    /\ pc = "done"
    /\ asked = <<"verbose", "executor">>
    /\ errKind = "prompt"
    /\ invoked = <<>>

CtrlC(ev) == ev.kind = "Key" /\ ev.code = "c" /\ ev.ctrl

PlainC == [kind |-> "Key", code |-> "c", ctrl |-> FALSE]

\* C17: the session is cancelled only from Rendering and only by a Char('c')
\* key event with the Control modifier; a plain 'c' is ignored, and
\* arrow_key_mode returns without dispatch and without error in no other way.
C17_CancelOnlyByChord ==
    /\ [](/\ exitPath = "interrupt" => (CtrlC(lastEvent) /\ invoked = <<>>)
          /\ (Returned /\ invoked = <<>> /\ akmResult # "err")
                => (exitPath = "interrupt" /\ CtrlC(lastEvent)))
    /\ [][/\ (exitPath' = "interrupt" /\ exitPath # "interrupt")
                => (pc = "read" /\ CtrlC(lastEvent') /\ nEvents' = nEvents + 1)
          /\ (nEvents' # nEvents /\ lastEvent' = PlainC)
                => (pc' = "read" /\ exitPath' = exitPath /\ selected' = selected)]_vars

\* Cancelled by the chord after other events.
C17_Witness ==
    /\ pc = "returned"
    /\ exitPath = "interrupt"
    /\ CtrlC(lastEvent)
    /\ nEvents = 3
    /\ selected = 1
    /\ akmResult = "ok"

\* C18: at the match after Enter the selection index is one of 0..4, so the
\* unreachable!() arm is never executed.
C18_UnreachableNeverRuns ==
    /\ pc # "panic"
    /\ pc = "match" => selected \in 0..4

\* Up at index 0, then Enter: the match is reached with index 0.
C18_Witness ==
    /\ pc = "match"
    /\ selected = 0
    /\ ups = 1
    /\ changes = 0

\* The session has an outcome: an action was called (Dispatching), the
\* session was cancelled, or arrow_key_mode returned an error.
Terminal == invoked # <<>> \/ exitPath = "interrupt" \/ akmResult = "err"

IsEnter(ev) == ev.kind = "Key" /\ ev.code = "Enter"

\* C19: the input loop is left only by Enter, by the interrupt chord or by an
\* I/O error; navigation and ignored events never end the session; and when
\* an event that leaves the loop eventually comes, every session reaches a
\* terminal outcome.
C19_SessionEnds ==
    /\ [][/\ (pc = "read" /\ pc' # "read") =>
                \/ (IsEnter(lastEvent') /\ exitPath' = "enter" /\ pc' = "disable")
                \/ (CtrlC(lastEvent') /\ exitPath' = "interrupt")
                \/ (ioAt' \in {"read", "redraw"} /\ akmResult' = "err")
          /\ (/\ nEvents' # nEvents
              /\ lastEvent' \in Events
              /\ ~IsEnter(lastEvent')
              /\ ~CtrlC(lastEvent')
              /\ ioAt' = "none") => (pc' = "read" /\ ~Terminal')]_vars
    /\ (MenuEntered ~> Terminal)

\* Three navigation events, an ignored one, then Enter and the action.
C19_Witness ==
    /\ pc = "returned"
    /\ exitPath = "enter"
    /\ ups + downs = 3
    /\ nEvents = 5
    /\ invoked # <<>>

====
